---- MODULE Spec2Model ----
(***************************************************************************)
(* Plant record synchronisation of the Geotag-Plants-on-a-Farm client:     *)
(* the redux plants slice (plantsSlice.js), the localStorage mirror        *)
(* (utils/storage.js), the API module with its two-minute cache            *)
(* (services/api.js), the start-up effect of App.jsx, the upload pipeline  *)
(* of ImageUpload.jsx and the delete handlers of PlantCard.jsx/FarmMap.jsx.*)
(*                                                                         *)
(* JavaScript runs the handlers on one event loop: every action below is   *)
(* one macrotask together with the microtasks (await continuations of      *)
(* already settled promises) that follow it.  The remote service is the    *)
(* environment: it holds its own list of records and answers each request  *)
(* at some moment between the request being sent and its completion being  *)
(* processed by the client.                                                *)
(***************************************************************************)
EXTENDS Integers, Sequences, FiniteSets, Bags, TLC

VARIABLES
    plants,          \* state.plants.plants        (plantsSlice initialState)
    plantsType,      \* the JavaScript type of state.plants.plants ("array" for a list)
    loading,         \* state.plants.loading
    error,           \* state.plants.error         ("null" models null)
    uploadProgress,  \* state.plants.uploadProgress: imageName -> percent
    mirror,          \* localStorage item 'farm-geotag-plants'
    storageOk,       \* whether localStorage.setItem succeeds (quota, private mode)
    cache,           \* api.js module variable cache {plants, timestamp}
    now,             \* Date.now()
    serverDb,        \* the records held by the remote service
    nextId,          \* next id the remote service assigns
    nextLocal,       \* number of ids generateId() has produced
    ops,             \* the asynchronous operations in flight (a bag of their closures)
    started,         \* number of operations started so far
    last,            \* the operation whose completion was processed last, with its result
    created,         \* history: the records of the successful creates, oldest first
    dirty,           \* history: a save succeeded and no fetchUserPlants was issued since
    cleared          \* history: clearCache ran and no fetchUserPlants was issued since

vars == <<plants, plantsType, loading, error, uploadProgress, mirror, storageOk, cache, now,
          serverDb, nextId, nextLocal, ops, started, last, created, dirty,
                   cleared>>

(***************************************************************************)
(* Bounds of the model.                                                    *)
(***************************************************************************)
\* operations (effect runs, uploads, deletes) started in one run
MaxOps == 2
\* uploads started in a run in which nothing but uploads follows the start-up refresh
MaxUploads == 2
\* the clock stops advancing once it passed this many milliseconds
MaxNow == 130001

\* the clock advances in these steps (ms): one ms short of the freshness window,
\* the window exactly, and 130 s
Steps == {119999, 120000, 130000}
\* the names of the files the user selects: the operation started k-th, when it
\* is an upload, is for the file named Files[k]
Files == <<"a.jpg", "b.jpg", "c.jpg", "d.jpg", "e.jpg", "f.jpg">>
\* percentages reported by the image host's progress event
ProgressValues == {100}

(***************************************************************************)
(* Program constants.                                                      *)
(***************************************************************************)
CACHE_DURATION == 2 * 60 * 1000
MAX_RETRIES == 2

(***************************************************************************)
(* JavaScript values.  A nullable value is <<>> (null) or <<v>>.           *)
(***************************************************************************)
Null == <<>>
Some(v) == <<v>>
IsNull(x) == x = <<>>
Val(x) == x[1]

\* a plant record; ids are integers: the remote service assigns 1, 2, ...
Rec(id, name) == [id |-> id, imageName |-> name]

\* generateId(): crypto.randomUUID(), a value no earlier call and no remote id
\* equals; the k-th call (k counted from 0) yields -(k + 1)
generateId(k) == 0 - (k + 1)

\* a JavaScript value that is expected to be a list of plants: its type
\* ("array", "null", "object", "number", "string") and, for an array, its elements
Value(type, list) == [type |-> type, list |-> list]
Array(list) == Value("array", list)
\* v is truthy (the number and the string of the model are not 0 and not "")
Truthy(v) == v.type # "null"
\* a slip: the length test never passes
HasElementsNever(v) == FALSE

\* v.length > 0 (the string of the model has one character; undefined > 0 is false)
HasElements(v) == (v.type = "array" /\ Len(v.list) > 0) \/ v.type = "string"
\* v || []
OrEmptyArray(v) == IF Truthy(v) THEN v ELSE Array(<<>>)

Ids(list) == {list[k].id : k \in 1..Len(list)}

RECURSIVE Filter(_, _)
\* Array.prototype.filter(p => p.id !== id)
Filter(list, id) ==
    IF list = <<>> THEN <<>>
    ELSE IF Head(list).id = id THEN Filter(Tail(list), id)
         ELSE <<Head(list)>> \o Filter(Tail(list), id)

(***************************************************************************)
(* utils/storage.js.  The stored item is absent, the empty text, a text    *)
(* that does not parse ("garbage"), the JSON text of an array ("json"), or *)
(* the JSON text of another value: null, {}, 5, "x".  The JSON text of a   *)
(* record is modelled as the tuple of its values in key order.             *)
(***************************************************************************)
Stored(kind) == [kind |-> kind, text |-> <<>>]
Absent == Stored("absent")
Garbage == Stored("garbage")
\* the kinds of text JSON.parse accepts without yielding an array
NonArrayKinds == {"null", "object", "number", "string"}

JSONstringify(v) ==
    IF v.type = "array"
    THEN [kind |-> "json",
          text |-> [k \in 1..Len(v.list) |-> <<v.list[k].id, v.list[k].imageName>>]]
    ELSE Stored(v.type)

JSONparse(item) ==
    IF item.kind = "json"
    THEN Array([k \in 1..Len(item.text) |-> Rec(item.text[k][1], item.text[k][2])])
    ELSE Value(item.kind, <<>>)

\* savePlantsToLocal(plants): the item after the call; a failing setItem is
\* caught and leaves the item as it was
savePlantsToLocal(item, ok, v) == IF ok THEN JSONstringify(v) ELSE item

\* loadPlantsFromLocal(): data ? JSON.parse(data) : [], [] when parse throws
loadPlantsFromLocal(item) ==
    IF item.kind \in {"absent", "empty"} THEN Array(<<>>)
    ELSE IF item.kind = "garbage" THEN Array(<<>>)
    ELSE JSONparse(item)

(***************************************************************************)
(* redux/slices/plantsSlice.js.  A reducer maps the world w (the slice     *)
(* state and the storage item it writes) and a payload to the new world.   *)
(***************************************************************************)
World == [plants |-> plants, plantsType |-> plantsType, loading |-> loading, error |-> error,
          uploadProgress |-> uploadProgress, mirror |-> mirror]

Without(f, key) == [k \in (DOMAIN f) \ {key} |-> f[k]]
With(f, key, v) == [k \in (DOMAIN f) \cup {key} |-> IF k = key THEN v ELSE f[k]]

uploadStart(w, name) ==
    [w EXCEPT !.uploadProgress = With(w.uploadProgress, name, 0)]

uploadProgressSet(w, name, progress) ==
    [w EXCEPT !.uploadProgress = With(w.uploadProgress, name, progress)]

\* a slip: push instead of unshift
uploadSuccessPush(w, plant) ==
    LET list == w.plants \o <<plant>>
    IN [w EXCEPT !.plants = list,
                 !.uploadProgress = Without(w.uploadProgress, plant.imageName),
                 !.mirror = savePlantsToLocal(w.mirror, storageOk, Array(list))]

\* a slip: the list is persisted before the new plant is added
uploadSuccessStaleSave(w, plant) ==
    [w EXCEPT !.plants = <<plant>> \o w.plants,
              !.uploadProgress = Without(w.uploadProgress, plant.imageName),
              !.mirror = savePlantsToLocal(w.mirror, storageOk, Array(w.plants))]

uploadSuccess(w, plant) ==
    LET list == <<plant>> \o w.plants
    IN [w EXCEPT !.plants = list,
                 !.uploadProgress = Without(w.uploadProgress, plant.imageName),
                 !.mirror = savePlantsToLocal(w.mirror, storageOk, Array(list))]

uploadFailure(w, name, msg) ==
    [w EXCEPT !.uploadProgress = Without(w.uploadProgress, name),
              !.error = msg]

\* a slip: the list is emptied while the request is under way
fetchPlantsStartClears(w) == [w EXCEPT !.plants = <<>>, !.loading = TRUE, !.error = "null"]

fetchPlantsStart(w) == [w EXCEPT !.loading = TRUE, !.error = "null"]

\* a slip: the list is persisted first and without the try/catch, so that a
\* failing write aborts the reducer
fetchPlantsSuccessWriteFirst(w, v) ==
    IF storageOk
    THEN [w EXCEPT !.plants = v.list,
                   !.plantsType = v.type,
                   !.loading = FALSE,
                   !.mirror = savePlantsToLocal(w.mirror, storageOk, v)]
    ELSE w

\* state.plants = action.payload, whatever value v the payload is
fetchPlantsSuccess(w, v) ==
    [w EXCEPT !.plants = v.list,
              !.plantsType = v.type,
              !.loading = FALSE,
              !.mirror = savePlantsToLocal(w.mirror, storageOk, v)]

deletePlantStart(w) == [w EXCEPT !.loading = TRUE]

\* a slip: the filter keeps the plant (=== for !==)
deletePlantSuccessKeeps(w, id) ==
    [w EXCEPT !.loading = FALSE,
              !.mirror = savePlantsToLocal(w.mirror, storageOk, Array(w.plants))]

deletePlantSuccess(w, id) ==
    LET list == Filter(w.plants, id)
    IN [w EXCEPT !.plants = list,
                 !.loading = FALSE,
                 !.mirror = savePlantsToLocal(w.mirror, storageOk, Array(list))]

Commit(w) ==
    /\ plants' = w.plants
    /\ plantsType' = w.plantsType
    /\ loading' = w.loading
    /\ error' = w.error
    /\ uploadProgress' = w.uploadProgress
    /\ mirror' = w.mirror

(***************************************************************************)
(* services/api.js: the cache.                                             *)
(***************************************************************************)
EmptyCache == [plants |-> Null, timestamp |-> Null]

\* a slip: the window taken as inclusive
CacheHitInclusive(c, t, forceRefresh) ==
    /\ ~forceRefresh
    /\ ~IsNull(c.plants)
    /\ ~IsNull(c.timestamp) /\ Val(c.timestamp) # 0
    /\ t - Val(c.timestamp) <= CACHE_DURATION

\* a slip: the forceRefresh argument is ignored
CacheHitIgnoringForce(c, t, forceRefresh) ==
    /\ ~IsNull(c.plants)
    /\ ~IsNull(c.timestamp) /\ Val(c.timestamp) # 0
    /\ t - Val(c.timestamp) < CACHE_DURATION

\* the guard of the cached return of fetchUserPlants
CacheHit(c, t, forceRefresh) ==
    /\ ~forceRefresh
    /\ ~IsNull(c.plants)
    /\ ~IsNull(c.timestamp) /\ Val(c.timestamp) # 0
    /\ t - Val(c.timestamp) < CACHE_DURATION

(***************************************************************************)
(* Operations in flight.  pc: "sent" the request is on its way, "answered"  *)
(* the remote has handled it and its response is on its way, "done" the     *)
(* client has processed the completion; an upload is first "hosting" (image *)
(* host) and "extracting" (extractCoordinates).  The outcome the client     *)
(* observes is the remote's answer ("ok": 2xx with success true,            *)
(* "rejected": 2xx with success false, "httpError": non-2xx) or "network":  *)
(* no response (unreachable network, or the timeout expired).  retry is     *)
(* config.retry of the request, attempts the number of times the request    *)
(* was sent; an operation the interceptor has rejected carries the outcome  *)
(* its caller will observe.  issued (history) is the number of operations    *)
(* that had completed when the operation was started.                       *)
(***************************************************************************)
NoResp == [status |-> "none", data |-> <<>>, shape |-> "none", rid |-> 0]

NewOp(kind) ==
    [kind |-> kind, pc |-> "sent", force |-> FALSE, local |-> Array(<<>>), name |-> "",
     id |-> 0, resp |-> NoResp, outcome |-> "none", retry |-> 0, attempts |-> 1,
     issued |-> 0]

InFlight == BagToSet(ops)
\* the number of operations whose completion has been processed
Done == started - BagCardinality(ops)
Started(op) == ops (+) SetToBag({op})
Replaced(op, new) == (ops (-) SetToBag({op})) (+) SetToBag({new})
Removed(op) == ops (-) SetToBag({op})

\* what the client can observe of a request: the remote's answer once it has
\* handled the request, or a transport failure at any moment
Deliverable(op) ==
    IF op.pc = "answered" THEN {op.resp.status, "network"}
    ELSE IF op.pc = "sent" THEN {"network"}
    ELSE {}

Finish(op, o, id) ==
    /\ ops' = Removed(op)
    /\ last' = [NewOp(op.kind) EXCEPT !.pc = "done", !.outcome = o, !.id = id,
                                      !.force = op.force, !.attempts = op.attempts]

(***************************************************************************)
(* services/api.js: the response interceptor of the axios instance.        *)
(***************************************************************************)
\* error.code of a failed attempt: the timeout expired (ECONNABORTED, or
\* ETIMEDOUT), no connection (ERR_NETWORK), a non-2xx status (ERR_BAD_RESPONSE)
ErrorCodes == {"ECONNABORTED", "ETIMEDOUT", "ERR_NETWORK", "ERR_BAD_RESPONSE"}

\* a slip: every failed attempt is retried
InterceptorRetriesAnyError(retry, code) == retry < MAX_RETRIES

\* config.retry < MAX_RETRIES && (code === 'ECONNABORTED' || code === 'ETIMEDOUT')
InterceptorRetries(retry, code) ==
    retry < MAX_RETRIES /\ code \in {"ECONNABORTED", "ETIMEDOUT"}

\* the error handler of the interceptor runs for an attempt that failed with
\* code: it sends the request again (after its backoff), or rejects, and the
\* operation that awaits the request will observe the failure
AttemptFails(op, code) ==
    /\ op.pc \in {"sent", "answered", "extracting"}
    /\ op.outcome = "none"
    /\ code = "ERR_BAD_RESPONSE" =>
          \/ op.pc = "answered" /\ op.resp.status = "httpError"
          \/ op.pc = "extracting"
    /\ IF InterceptorRetries(op.retry, code)
       THEN ops' = Replaced(op, [op EXCEPT !.retry = @ + 1, !.attempts = @ + 1,
                                !.pc = IF @ = "extracting" THEN @ ELSE "sent",
                                !.resp = NoResp])
       ELSE ops' = Replaced(op, [op EXCEPT !.outcome =
                                IF code = "ERR_BAD_RESPONSE" THEN "httpError"
                                ELSE "network"])
    /\ UNCHANGED <<plants, plantsType, loading, error, uploadProgress, mirror, storageOk,
                   cache, now, serverDb, nextId, nextLocal, started, last, created, dirty,
                   cleared>>

\* the result o an operation can observe of its request once the interceptor
\* is taken into account: the 2xx response, or the failure the interceptor
\* rejected with
Settles(op, o) ==
    \/ op.outcome = "none" /\ o \in {"ok", "rejected"}
    \/ op.outcome # "none" /\ o = op.outcome

(***************************************************************************)
(* The remote service.                                                     *)
(***************************************************************************)
ServerRec(id, name) == [_id |-> id, imageName |-> name]

RECURSIVE ServerRemove(_, _)
ServerRemove(db, id) ==
    IF db = <<>> THEN <<>>
    ELSE IF Head(db)._id = id THEN ServerRemove(Tail(db), id)
         ELSE <<Head(db)>> \o ServerRemove(Tail(db), id)

\* the remote handles a request: a 2xx answer with success true ("ok"), a 2xx
\* answer with success false ("rejected") or a non-2xx answer ("httpError")
ServerHandle(op, status, shape) ==
    /\ op.pc = "sent"
    /\ \/ /\ op.kind = "refresh"
          /\ shape = "none"
          /\ ops' = Replaced(op, [op EXCEPT !.pc = "answered",
                                  !.resp = [NoResp EXCEPT !.status = status,
                                     !.data = IF status = "ok" THEN serverDb ELSE <<>>]])
          /\ UNCHANGED <<serverDb, nextId>>
       \/ /\ op.kind = "upload"
          /\ IF status = "ok"
             THEN /\ shape \in {"full", "noid", "nodata"}
                  /\ serverDb' = Append(serverDb, ServerRec(nextId, op.name))
                  /\ nextId' = nextId + 1
                  /\ ops' = Replaced(op, [op EXCEPT !.pc = "answered",
                                  !.resp = [NoResp EXCEPT !.status = "ok",
                                                !.shape = shape, !.rid = nextId]])
             ELSE \* a non-2xx response may carry the JSON body null
                  /\ shape \in (IF status = "httpError" THEN {"none", "nullbody"}
                                ELSE {"none"})
                  /\ ops' = Replaced(op, [op EXCEPT !.pc = "answered",
                                  !.resp = [NoResp EXCEPT !.status = status,
                                                          !.shape = shape]])
                  /\ UNCHANGED <<serverDb, nextId>>
       \/ /\ op.kind = "delete"
          /\ shape = "none"
          /\ serverDb' = IF status = "ok" THEN ServerRemove(serverDb, op.id)
                         ELSE serverDb
          /\ ops' = Replaced(op, [op EXCEPT !.pc = "answered",
                                  !.resp = [NoResp EXCEPT !.status = status]])
          /\ UNCHANGED nextId
    /\ UNCHANGED <<plants, plantsType, loading, error, uploadProgress, mirror, storageOk, cache,
                   now, nextLocal, started, last, created, dirty,
                   cleared>>

(***************************************************************************)
(* services/api.js: fetchUserPlants, and App.jsx: the start-up effect.     *)
(***************************************************************************)
\* plant => ({id: plant._id || plant.id, imageName: plant.imageName, ...})
MapPlants(data) == [k \in 1..Len(data) |-> Rec(data[k]._id, data[k].imageName)]

\* the error of the result of fetchUserPlants for outcome o: success false is
\* answered in the else branch, every thrown error in the catch block
fetchError(o) ==
    IF o \in {"cache", "ok"} THEN "null"
    ELSE IF o = "rejected" THEN "Failed to fetch plants"
    ELSE "API not available"

\* the result object of fetchUserPlants for the observed outcome o
fetchResult(o, data) ==
    IF o = "cache"
    THEN [success |-> TRUE, data |-> data, fromCache |-> TRUE, error |-> fetchError(o)]
    ELSE IF o = "ok"
    THEN [success |-> TRUE, data |-> MapPlants(data), fromCache |-> FALSE,
          error |-> fetchError(o)]
    ELSE [success |-> FALSE, data |-> <<>>, fromCache |-> FALSE, error |-> fetchError(o)]

\* the cache after fetchUserPlants processed outcome o at time t
fetchCache(c, o, data, t) ==
    IF o = "ok" THEN [plants |-> Some(MapPlants(data)), timestamp |-> Some(t)] ELSE c

\* a slip: the collection read from the mirror is dispatched whatever the result
loadFromAPIdispatchLocal(w, r, localPlants) ==
    fetchPlantsSuccess(w, OrEmptyArray(localPlants))

\* loadFromAPI after the await: what it dispatches for result r
loadFromAPIdispatch(w, r, localPlants) ==
    IF r.success /\ Len(r.data) > 0
    THEN fetchPlantsSuccess(w, Array(r.data))
    ELSE fetchPlantsSuccess(w, OrEmptyArray(localPlants))

\* the effect of AppContent (mount, and every change of the theme), up to the
\* first await of loadFromAPI that does not resolve at once
RunEffect(forceRefresh) ==
    /\ started' = started + 1
    /\ LET localPlants == loadPlantsFromLocal(mirror)
           w1 == IF Truthy(localPlants) /\ HasElements(localPlants)
                 THEN fetchPlantsSuccess(World, localPlants)
                 ELSE fetchPlantsSuccess(World, Array(<<>>))
           w2 == fetchPlantsStart(w1)
           op == [NewOp("refresh") EXCEPT !.force = forceRefresh, !.local = localPlants,
                                          !.issued = Done]
       IN IF CacheHit(cache, now, forceRefresh)
          THEN /\ Commit(loadFromAPIdispatch(w2,
                            fetchResult("cache", Val(cache.plants)), localPlants))
               /\ ops' = ops
               /\ last' = [NewOp("refresh") EXCEPT !.pc = "done", !.outcome = "cache",
                                                  !.force = forceRefresh]
          ELSE /\ Commit(w2)
               /\ ops' = Started(op)
               /\ last' = last
    /\ dirty' = FALSE
    /\ cleared' = FALSE
    /\ UNCHANGED <<storageOk, cache, now, serverDb, nextId, nextLocal, created>>

\* the response of the fetch request (or its failure) is processed
CompleteRefresh(op, o) ==
    /\ op.kind = "refresh"
    /\ o \in Deliverable(op)
    /\ cache' = fetchCache(cache, o, op.resp.data, now)
    /\ Commit(loadFromAPIdispatch(World, fetchResult(o, op.resp.data), op.local))
    /\ Finish(op, o, 0)
    /\ UNCHANGED <<storageOk, now, serverDb, nextId, nextLocal, started, created, dirty,
                   cleared>>

(***************************************************************************)
(* ImageUpload.jsx: uploadSingleFile, with services/api.js:                *)
(* extractCoordinates and savePlantData.                                   *)
(***************************************************************************)
\* uploadSingleFile up to the await of uploadToCloudinary; Upload All starts one
\* per selected file, and they then run concurrently
StartUpload(name) ==
    /\ started >= 1
    /\ started' = started + 1
    /\ Commit(uploadStart(World, name))
    /\ ops' = Started([NewOp("upload") EXCEPT !.pc = "hosting", !.name = name])
    /\ UNCHANGED <<storageOk, cache, now, serverDb, nextId, nextLocal, last, created, dirty,
                   cleared>>

\* onUploadProgress of the image host
HostProgress(op, progress) ==
    /\ op.kind = "upload" /\ op.pc = "hosting"
    /\ Commit(uploadProgressSet(World, op.name, progress))
    /\ UNCHANGED <<storageOk, cache, now, serverDb, nextId, nextLocal, ops, started,
                   last, created, dirty,
                   cleared>>

\* uploadToCloudinary returns the hosted url, and extractCoordinates is sent; or
\* it throws (size, type, host error) and the catch block dispatches uploadFailure
HostDone(op, hosted) ==
    /\ op.kind = "upload" /\ op.pc = "hosting"
    /\ IF hosted
       THEN /\ ops' = Replaced(op, [op EXCEPT !.pc = "extracting"])
            /\ UNCHANGED <<plants, plantsType, loading, error, uploadProgress, mirror, last>>
       ELSE /\ Commit(uploadFailure(World, op.name, "Upload failed"))
            /\ Finish(op, "hostFailed", 0)
    /\ UNCHANGED <<storageOk, cache, now, serverDb, nextId, nextLocal, started, created, dirty,
                   cleared>>

\* the error message of the result of extractCoordinates for outcome o
extractError(o) ==
    IF o = "rejected" THEN "Failed to extract coordinates from image"
    ELSE IF o = "httpError" THEN "Failed to extract coordinates"
    ELSE "Network error. Please check your connection."

\* the error message of the result of savePlantData for outcome o
saveError(o) ==
    IF o = "network" THEN "Network error. Please check your connection."
    ELSE "Failed to save plant data"

\* the catch block of savePlantData reads error.response.data.message: for a
\* non-2xx response whose body is null the read throws out of the catch block,
\* and the promise of savePlantData rejects
saveRejects(op, o) == o = "httpError" /\ op.resp.shape = "nullbody"

\* the coordinates in the data of a successful extractCoordinates: a latitude
\* and a longitude in degrees, each absent (undefined) or a number
Coord(lat, long) == [latitude |-> lat, longitude |-> long]
Somewhere == Coord(Some(10), Some(20))
Coordinates ==
    {Somewhere, Coord(Some(0), Some(20)), Coord(Some(10), Some(0)),
     Coord(Some(0 - 90), Some(180)), Coord(Null, Some(20)), Coord(Some(10), Null)}

\* plantData of uploadSingleFile: the file's name, the hosted url, the coordinates
Draft(name, c) ==
    [imageName |-> name, imageUrl |-> "https://host/" \o name,
     latitude |-> c.latitude, longitude |-> c.longitude]

\* !x for a value that is undefined or a number
FalsyNumber(x) == IsNull(x) \/ Val(x) = 0

\* the validation of savePlantData: !imageName || !imageUrl || !latitude || !longitude
MissingFields(d) ==
    \/ d.imageName = "" \/ d.imageUrl = ""
    \/ FalsyNumber(d.latitude) \/ FalsyNumber(d.longitude)

\* a slip: the result of extractCoordinates is not looked at before saving
ExtractDoneUnchecked(op, o, coords) ==
    /\ op.kind = "upload" /\ op.pc = "extracting"
    /\ ops' = Replaced(op, [op EXCEPT !.pc = "sent", !.outcome = "none",
                                     !.retry = 0, !.attempts = 1])
    /\ UNCHANGED <<plants, plantsType, loading, error, uploadProgress, mirror, last>>
    /\ UNCHANGED <<storageOk, cache, now, serverDb, nextId, nextLocal, started, created, dirty,
                   cleared>>

\* extractCoordinates returns.  On success savePlantData validates the draft
\* and sends the save request
ExtractDone(op, o, coords) ==
    /\ op.kind = "upload" /\ op.pc = "extracting"
    /\ IF o = "ok" /\ ~MissingFields(Draft(op.name, coords))
       THEN /\ ops' = Replaced(op, [op EXCEPT !.pc = "sent", !.outcome = "none",
                                                !.retry = 0, !.attempts = 1])
            /\ UNCHANGED <<plants, plantsType, loading, error, uploadProgress, mirror, last>>
       ELSE /\ Commit(uploadFailure(World, op.name,
                        IF o = "ok" THEN "Missing required plant data fields"
                        ELSE extractError(o)))
            /\ Finish(op, IF o = "ok" THEN "missingFields" ELSE "extractFailed", 0)
    /\ UNCHANGED <<storageOk, cache, now, serverDb, nextId, nextLocal, started, created, dirty,
                   cleared>>

\* a slip: the cache invalidated on every save attempt
saveCacheAnyAttempt(c, o) == EmptyCache

\* the cache after savePlantData processed outcome o
saveCache(c, o) == IF o = "ok" THEN EmptyCache ELSE c

\* the response of the save request (or its failure) is processed: savePlantData
\* returns and uploadSingleFile builds finalPlantData and dispatches
CompleteUpload(op, o) ==
    /\ op.kind = "upload"
    /\ o \in Deliverable(op)
    /\ cache' = saveCache(cache, o)
    /\ dirty' = (dirty \/ o = "ok")
    /\ cleared' = cleared
    /\ IF o = "ok" /\ op.resp.shape # "nodata"
       THEN \* id: saveResult.data.id || generateId()
            LET fromRemote == op.resp.shape = "full"
                id == IF fromRemote THEN op.resp.rid ELSE generateId(nextLocal)
            IN /\ nextLocal' = IF fromRemote THEN nextLocal ELSE nextLocal + 1
               /\ Commit(uploadSuccess(World, Rec(id, op.name)))
               /\ created' = Append(created, Rec(id, op.name))
               /\ Finish(op, "ok", id)
       ELSE \* saveResult.data is null: reading .id throws, into the catch block;
            \* so does a rejection of savePlantData
            /\ nextLocal' = nextLocal
            /\ created' = created
            /\ Commit(uploadFailure(World, op.name,
                         IF o = "ok" THEN "Cannot read properties of null"
                         ELSE IF saveRejects(op, o)
                         THEN "Cannot read properties of null (reading 'message')"
                         ELSE saveError(o)))
            /\ Finish(op, IF o = "ok" THEN "nodata"
                          ELSE IF saveRejects(op, o) THEN "threw" ELSE o, 0)
    /\ UNCHANGED <<storageOk, now, serverDb, nextId, started>>

(***************************************************************************)
(* PlantCard.jsx: handleDelete / FarmMap.jsx: handleDeletePlant, with      *)
(* services/api.js: deletePlantData.                                       *)
(***************************************************************************)
\* a slip: the answer to the confirm dialog is not looked at
StartDeleteUnconfirmed(k, confirmed) ==
    /\ started >= 1
    /\ k \in 1..Len(plants)
    /\ started' = started + 1
    /\ Commit(deletePlantStart(World))
    /\ ops' = Started([NewOp("delete") EXCEPT !.id = plants[k].id])
    /\ last' = last
    /\ UNCHANGED <<storageOk, cache, now, serverDb, nextId, nextLocal, created, dirty,
                   cleared>>

\* the user presses Delete on the k-th plant and answers the confirm dialog; a
\* declined dialog ends the handler at once
StartDelete(k, confirmed) ==
    /\ started >= 1
    /\ k \in 1..Len(plants)
    /\ IF confirmed
       THEN /\ started' = started + 1
            /\ Commit(deletePlantStart(World))
            /\ ops' = Started([NewOp("delete") EXCEPT !.id = plants[k].id])
            /\ last' = last
       ELSE /\ last' = [NewOp("delete") EXCEPT !.pc = "done", !.outcome = "declined",
                                               !.id = plants[k].id]
            /\ UNCHANGED <<plants, plantsType, loading, error, uploadProgress, mirror, ops,
                           started>>
    /\ UNCHANGED <<storageOk, cache, now, serverDb, nextId, nextLocal, created, dirty,
                   cleared>>

\* the cache after deletePlantData processed outcome o: cleared after success
\* true and in the catch block, kept after success false
deleteCache(c, o) == IF o = "rejected" THEN c ELSE EmptyCache

\* the response of the delete request (or its failure) is processed:
\* deletePlantData returns and the handler dispatches deletePlantSuccess
CompleteDelete(op, o) ==
    /\ op.kind = "delete"
    /\ o \in Deliverable(op)
    /\ cache' = deleteCache(cache, o)
    /\ Commit(deletePlantSuccess(World, op.id))
    /\ Finish(op, o, op.id)
    /\ UNCHANGED <<storageOk, now, serverDb, nextId, nextLocal, started, created, dirty,
                   cleared>>

\* clearCache()
ClearCache ==
    /\ started >= 1
    /\ cache' = EmptyCache
    /\ cleared' = TRUE
    /\ UNCHANGED <<plants, plantsType, loading, error, uploadProgress, mirror, storageOk, now,
                   serverDb, nextId, nextLocal, ops, started, last, created, dirty>>

\* time passes
Tick(d) ==
    /\ now + d <= MaxNow
    /\ now' = now + d
    /\ UNCHANGED <<plants, plantsType, loading, error, uploadProgress, mirror, storageOk, cache,
                   serverDb, nextId, nextLocal, ops, started, last, created, dirty,
                   cleared>>

(***************************************************************************)
(* The state after construction: the slice's initialState, an empty cache, *)
(* and whatever an earlier session left in localStorage and at the remote. *)
(***************************************************************************)
Start(items, oks) ==
    /\ plants = <<>>
    /\ plantsType = "array"
    /\ loading = FALSE
    /\ error = "null"
    /\ uploadProgress = <<>>
    /\ mirror \in items
    /\ storageOk \in oks
    /\ cache = EmptyCache
    /\ now = 1
    /\ serverDb \in {<<>>, <<ServerRec(1, "old.jpg")>>}
    /\ nextId = 2
    /\ nextLocal = 0
    /\ ops = EmptyBag
    /\ started = 0
    /\ created = <<>>
    /\ last = [NewOp("none") EXCEPT !.pc = "done"]
    /\ dirty = FALSE
    /\ cleared = FALSE

\* an earlier session left nothing, or the list it held
Init == Start({Absent, JSONstringify(Array(<<Rec(1, "old.jpg")>>))}, {TRUE})

Outcomes == {"ok", "rejected", "httpError", "network"}

\* the steps of the remote and of the refreshes and uploads in flight
Progress ==
    \/ \E op \in InFlight : \E s \in {"ok", "rejected", "httpError"} :
          \E sh \in {"none", "full", "noid", "nodata", "nullbody"} :
             ServerHandle(op, s, sh)
    \/ \E op \in InFlight : \E o \in Outcomes : CompleteRefresh(op, o)
    \/ \E op \in InFlight : \E p \in ProgressValues : HostProgress(op, p)
    \/ \E op \in InFlight : \E h \in BOOLEAN : HostDone(op, h)
    \/ \E op \in InFlight : \E o \in Outcomes :
          \E c \in Coordinates : ExtractDone(op, o, c)
    \/ \E op \in InFlight : \E o \in Outcomes : CompleteUpload(op, o)

Next ==
    \/ started < MaxOps /\ \E f \in BOOLEAN : RunEffect(f)
    \/ started < MaxOps /\ StartUpload(Files[started + 1])
    \/ started < MaxOps /\ \E k \in 1..Len(plants) : \E c \in BOOLEAN : StartDelete(k, c)
    \/ Progress
    \/ \E op \in InFlight : \E o \in Outcomes : CompleteDelete(op, o)
    \/ ClearCache
    \/ \E d \in Steps : Tick(d)

\* the application and the API: any interleaving of effect runs (fetchUserPlants
\* with either argument), uploads, deletes, clearCache and the passing of time
Spec == Init /\ [][Next]_vars

\* creates alone: the start-up refresh completes with an empty collection, and
\* then only uploads are started (Upload All runs them concurrently)
NextCreates ==
    \/ started = 0 /\ RunEffect(FALSE)
    \/ /\ started <= MaxUploads
       /\ \A op \in InFlight : op.kind = "upload"
       /\ created = <<>> => plants = <<>>
       /\ StartUpload(Files[started + 1])
    \/ Progress
    \/ \E d \in Steps : Tick(d)

SpecCreates == Init /\ [][NextCreates]_vars

\* what the storage item can hold when the application starts: nothing, the
\* empty text, a text that is not JSON, the JSON text of a list, or the JSON text
\* of a value that is not a list
StoredItems ==
    {Absent, Stored("empty"), Garbage, JSONstringify(Array(<<>>)),
     JSONstringify(Array(<<Rec(1, "old.jpg")>>))} \cup {Stored(k) : k \in NonArrayKinds}

\* start-up alone: the effect (mount, and its re-run by a change of theme) with
\* its background fetch, over every content of the storage item
NextLoad ==
    \/ started < MaxOps /\ RunEffect(FALSE)
    \/ \E op \in InFlight : \E s \in {"ok", "rejected", "httpError"} :
          ServerHandle(op, s, "none")
    \/ \E op \in InFlight : \E o \in Outcomes : CompleteRefresh(op, o)
    \/ \E d \in Steps : Tick(d)

SpecLoad == Start(StoredItems, {TRUE}) /\ [][NextLoad]_vars

\* a session in which every localStorage write fails (quota exceeded by other
\* keys, storage disabled): the item stays as the earlier session left it
SpecQuota ==
    Start({Absent, JSONstringify(Array(<<Rec(1, "old.jpg")>>))}, {FALSE}) /\ [][Next]_vars

\* overlapping refreshes: the effect runs again (a change of theme) before the
\* response of any earlier run has been processed
NextOverlap ==
    \/ started < MaxOps /\ last.kind = "none" /\ RunEffect(FALSE)
    \/ \E op \in InFlight : \E s \in {"ok", "rejected", "httpError"} :
          ServerHandle(op, s, "none")
    \/ \E op \in InFlight : \E o \in Outcomes : CompleteRefresh(op, o)
    \/ \E d \in Steps : Tick(d)

SpecOverlap == Init /\ [][NextOverlap]_vars

\* the transport in detail: one operation at a time, each attempt of its
\* requests answered by the remote or failing with an error code that goes
\* through the interceptor.  (In the other specifications a request stands for
\* its attempts taken together, and "network" for the interceptor's rejection.)
\* The rejection and the continuation of the awaiting operation run in one
\* task, so the remote handles no attempt in between.
\* the steps of the attempts and of the operation in flight
Transport ==
    \/ \E op \in InFlight : \E s \in {"ok", "rejected", "httpError"} :
          \E sh \in {"none", "full", "nullbody"} :
             op.outcome = "none" /\ ServerHandle(op, s, sh)
    \/ \E op \in InFlight : HostDone(op, TRUE)
    \/ \E op \in InFlight : \E code \in ErrorCodes : AttemptFails(op, code)
    \/ \E op \in InFlight : \E o \in Outcomes : Settles(op, o) /\ CompleteRefresh(op, o)
    \/ \E op \in InFlight : \E o \in Outcomes : Settles(op, o) /\ ExtractDone(op, o, Somewhere)
    \/ \E op \in InFlight : \E o \in Outcomes : Settles(op, o) /\ CompleteUpload(op, o)
    \/ \E op \in InFlight : \E o \in Outcomes : Settles(op, o) /\ CompleteDelete(op, o)

NextRetry ==
    \/ started < MaxOps /\ ops = EmptyBag /\ RunEffect(FALSE)
    \/ started < MaxOps /\ ops = EmptyBag /\ StartUpload(Files[started + 1])
    \/ started < MaxOps /\ ops = EmptyBag /\ \E k \in 1..Len(plants) : StartDelete(k, TRUE)
    \/ Transport

SpecRetry == Init /\ [][NextRetry]_vars

\* every attempt is eventually answered or fails, and the event loop eventually
\* runs the continuation of a settled request
SpecLive == Init /\ [][NextRetry]_vars /\ WF_vars(Transport)

(***************************************************************************)
(* Steps of interest, as they show in a pair of states.                    *)
(***************************************************************************)
\* the completion of a fetch request is processed with observed outcome o
RefreshCompletes(op, o) == op.kind = "refresh" /\ CompleteRefresh(op, o)
\* deletePlantData returns with observed outcome o
DeleteReturns(op, o) == op.kind = "delete" /\ CompleteDelete(op, o)
\* extractCoordinates returns failure, or savePlantData rejects the draft
ExtractFails(op, o, c) ==
    /\ op.kind = "upload"
    /\ ~(o = "ok" /\ ~MissingFields(Draft(op.name, c)))
    /\ ExtractDone(op, o, c)
\* savePlantData returns failure after its request
SaveFails(op, o) == op.kind = "upload" /\ o # "ok" /\ CompleteUpload(op, o)
\* uploadToCloudinary throws
HostFails(op) == op.kind = "upload" /\ HostDone(op, FALSE)
\* savePlantData returns success
SaveSucceeds(op) == op.kind = "upload" /\ CompleteUpload(op, "ok")
\* the number of records the remote holds for the file name
StoredFor(name) == Cardinality({k \in 1..Len(serverDb) : serverDb[k].imageName = name})
\* the number of records successful creates have inserted for the file name
InsertedFor(name) == Cardinality({k \in 1..Len(created) : created[k].imageName = name})
\* the list a persisted item reads back as
Persisted == loadPlantsFromLocal(mirror).list

(***************************************************************************)
(* C1.  A refresh that ends in a remote failure leaves the in-memory       *)
(* collection and the persisted mirror as they were just before its        *)
(* completion was processed, whatever completed while it was in flight.    *)
(***************************************************************************)
C1_FailedRefreshKeepsCollection ==
    [][\A op \in InFlight : \A o \in Outcomes \ {"ok"} :
          RefreshCompletes(op, o) => plants' = plants /\ mirror' = mirror]_vars

(***************************************************************************)
(* C2.  As claimed: a refresh the remote answers with success and list R   *)
(* leaves the collection equal to R, the mirror equal to R and the cache   *)
(* holding R stamped with the time of the response, for every R.           *)
(***************************************************************************)
C2_SuccessReplacesAlways ==
    [][\A op \in InFlight :
          RefreshCompletes(op, "ok") =>
             LET R == MapPlants(op.resp.data)
             IN /\ plants' = R
                /\ loadPlantsFromLocal(mirror') = Array(R)
                /\ cache' = [plants |-> Some(R), timestamp |-> Some(now)]]_vars

(***************************************************************************)
(* C2, amended.  For a non-empty R the collection and (when the write      *)
(* succeeds) the mirror equal R; for the empty R they are set to the list  *)
(* the refresh read from the mirror when it started.  In both cases the    *)
(* cache holds R stamped with the time of the response.                    *)
(***************************************************************************)
C2_SuccessReplacesNonEmpty ==
    [][\A op \in InFlight :
          RefreshCompletes(op, "ok") =>
             LET R == MapPlants(op.resp.data)
                 shown == IF R # <<>> THEN R ELSE op.local.list
             IN /\ plants' = shown
                /\ storageOk => mirror'.kind = "json"
                                 /\ loadPlantsFromLocal(mirror') = Array(shown)
                /\ cache' = [plants |-> Some(R), timestamp |-> Some(now)]]_vars

\* a successful refresh has replaced a collection that held the records in
\* another order (the create came first locally, last at the remote)
C2_Witness ==
    /\ last.kind = "refresh" /\ last.outcome = "ok"
    /\ Len(created) = 1 /\ Len(plants) = 2
    /\ plants[2] = created[1]
    /\ cache = [plants |-> Some(plants), timestamp |-> Some(now)]
    /\ Persisted = plants

(***************************************************************************)
(* C3.  fetchUserPlants(false), called at time t while the cache holds the *)
(* list of a successful fetch stamped f, answers from the cache without    *)
(* contacting the remote exactly when t - f < 120000 ms; at 120000 and     *)
(* beyond it sends a request.  A cached answer hands the cached list on.   *)
(***************************************************************************)
C3_FreshnessWindow ==
    [][(RunEffect(FALSE) /\ ~IsNull(cache.plants) /\ ~IsNull(cache.timestamp)) =>
          LET age == now - Val(cache.timestamp)
              cached == Val(cache.plants)
              contacted == BagCardinality(ops') = BagCardinality(ops) + 1
          IN /\ (age < 120000) <=> ~contacted
             /\ (age >= 120000) <=> contacted
             /\ ~contacted =>
                   /\ last'.kind = "refresh" /\ last'.outcome = "cache"
                   /\ cache' = cache
                   /\ cached # <<>> => plants' = cached
             /\ contacted =>
                   \E op \in BagToSet(ops') :
                      op.kind = "refresh" /\ op.pc = "sent" /\ ~op.force]_vars

\* a call 119999 ms after the fetch was answered from the cache
C3_Witness ==
    /\ last.kind = "refresh" /\ last.outcome = "cache" /\ ~last.force
    /\ ~IsNull(cache.timestamp) /\ now - Val(cache.timestamp) = 119999
    /\ plants = Val(cache.plants) /\ plants # <<>>
    /\ ops = EmptyBag

(***************************************************************************)
(* C4.  fetchUserPlants(true) sends a request to the remote on every call, *)
(* whatever the cache holds, and its result is never marked fromCache.     *)
(***************************************************************************)
C4_ForceAlwaysContacts ==
    /\ [][RunEffect(TRUE) =>
            /\ BagCardinality(ops') = BagCardinality(ops) + 1
            /\ \E op \in BagToSet(ops') :
                  op.kind = "refresh" /\ op.pc = "sent" /\ op.force
            /\ last' = last]_vars
    /\ [](last.force => last.outcome # "cache")
    /\ [](\A op \in InFlight : \A o \in Deliverable(op) :
             op.force => ~fetchResult(o, op.resp.data).fromCache)

\* a forced call is in flight although the cache holds a fresh list
C4_Witness ==
    /\ CacheHit(cache, now, FALSE)
    /\ last.kind = "refresh" /\ last.outcome = "ok" /\ ~last.force
    /\ \E op \in InFlight : op.kind = "refresh" /\ op.force /\ op.pc = "sent"
                            /\ op.local.list = Val(cache.plants) /\ op.local.list # <<>>

(***************************************************************************)
(* C5.  Starting from an empty collection, with no refresh or delete in    *)
(* between, the collection holds exactly the records of the successful     *)
(* creates, the most recently completed first.                             *)
(***************************************************************************)
RECURSIVE Reverse(_)
Reverse(list) == IF list = <<>> THEN <<>> ELSE Reverse(Tail(list)) \o <<Head(list)>>

C5_CreatesMostRecentFirst == started >= 2 => plants = Reverse(created)

\* two creates have succeeded
C5_Witness ==
    /\ Len(created) = 2 /\ Len(plants) = 2
    /\ plants[1] = created[2] /\ plants[2] = created[1]
    /\ plants[1].id # plants[2].id

(***************************************************************************)
(* C6.  No two entries of the in-memory collection have the same id.       *)
(***************************************************************************)
C6_UniqueIds ==
    \A i, j \in 1..Len(plants) : i # j => plants[i].id # plants[j].id

(***************************************************************************)
(* C7.  As claimed: once the delete is confirmed the record is gone from   *)
(* the collection, without waiting for the remote call to return.          *)
(***************************************************************************)
C7_RemovedWithoutWaiting ==
    \A op \in InFlight : op.kind = "delete" => op.id \notin Ids(plants)

(***************************************************************************)
(* C7, amended.  The record is removed when deletePlantData returns, and   *)
(* it is removed for every outcome of the remote call; the call returns    *)
(* for every outcome (it never throws).                                    *)
(***************************************************************************)
C7_RemovedOnReturn ==
    /\ [][\A op \in InFlight : \A o \in Outcomes :
             DeleteReturns(op, o) => op.id \notin Ids(plants')]_vars
    /\ [](\A op \in InFlight : op.kind = "delete" =>
             /\ Deliverable(op) # {}
             /\ \A o \in Deliverable(op) : ENABLED CompleteDelete(op, o))

\* a delete the remote answered with success false has removed the record
C7_Witness ==
    /\ last.kind = "delete" /\ last.outcome = "rejected"
    /\ last.id \notin Ids(plants)
    /\ last.id \in {serverDb[k]._id : k \in 1..Len(serverDb)}

(***************************************************************************)
(* C8.  After deletePlantData returns the cache is empty, for every        *)
(* outcome of the remote call.                                             *)
(***************************************************************************)
C8_DeleteEmptiesCache ==
    [][\A op \in InFlight : \A o \in Outcomes :
          DeleteReturns(op, o) => cache' = EmptyCache]_vars

(***************************************************************************)
(* C9.  After a create whose remote save succeeded, the first              *)
(* fetchUserPlants(false) issued afterwards is not answered from the cache.*)
(***************************************************************************)
C9_CreateForcesRefetch == dirty => ~CacheHit(cache, now, FALSE)

(***************************************************************************)
(* C10.  With localStorage writes succeeding, once the start-up effect has *)
(* run the persisted mirror holds the in-memory collection: the same       *)
(* records in the same order, after every mutation of the collection.      *)
(***************************************************************************)
C10_MirrorEqualsCollection ==
    (storageOk /\ started >= 1) => (mirror.kind = "json" /\ Persisted = plants)

\* the mirror holds the two records left by a create
C10_Witness ==
    /\ last.kind = "upload" /\ last.outcome = "ok"
    /\ Len(plants) = 2 /\ plants[1].id = last.id
    /\ mirror = JSONstringify(Array(plants))
(***************************************************************************)
(* C11.  loadPlantsFromLocal always returns a list, the empty list for an  *)
(* item that is absent, empty, unparseable or parseable but not a list;    *)
(* the collection set from it at start-up and on the failure fallback is   *)
(* always a list.                                                          *)
(***************************************************************************)
C11_LoadedIsAlwaysList ==
    /\ loadPlantsFromLocal(mirror).type = "array"
    /\ mirror.kind # "json" => loadPlantsFromLocal(mirror) = Array(<<>>)
    /\ \A op \in InFlight : op.kind = "refresh" => op.local.type = "array"
    /\ plantsType = "array"
(***************************************************************************)
(* C12.  A create that fails because extractCoordinates or savePlantData   *)
(* reports failure leaves the collection, the mirror and the cache as they *)
(* were; state.error is set and the uploadProgress entry of that image is  *)
(* removed, and nothing else of the slice changes.                         *)
(***************************************************************************)
C12_FailedCreateFrame ==
    [][\A op \in InFlight :
          (\/ \E o \in Outcomes : \E c \in Coordinates : ExtractFails(op, o, c)
           \/ \E o \in Outcomes : SaveFails(op, o))
          => /\ plants' = plants /\ plantsType' = plantsType
             /\ mirror' = mirror
             /\ cache' = cache
             /\ loading' = loading
             /\ error' # "null"
             /\ uploadProgress' = Without(uploadProgress, op.name)]_vars

\* a save the remote rejected: the collection and the cached list are those of
\* the refresh before it
C12_Witness ==
    /\ last.kind = "upload" /\ last.outcome = "rejected"
    /\ error = "Failed to save plant data"
    /\ plants # <<>> /\ Persisted = plants
    /\ cache.plants = Some(plants)
    /\ uploadProgress = <<>>
(***************************************************************************)
(* C13.  After a refresh that ended in a remote failure state.error is     *)
(* non-null, which tells the outcome from that of a refresh that succeeded.*)
(***************************************************************************)
C13_FailedRefreshSetsError ==
    [][\A op \in InFlight : \A o \in Outcomes \ {"ok"} :
          RefreshCompletes(op, o) => error' # "null"]_vars
(***************************************************************************)
(* C14.  Every create whose remote save reports success puts a record at   *)
(* the front of the collection, with the id of the response when it        *)
(* carries one and a locally generated id otherwise, also when the         *)
(* response carries no data object.                                        *)
(***************************************************************************)
C14_SavedCreateInserts ==
    [][\A op \in InFlight :
          SaveSucceeds(op) =>
             /\ Len(plants') = Len(plants) + 1
             /\ Tail(plants') = plants
             /\ plants'[1].imageName = op.name
             /\ plants'[1].id = IF op.resp.shape = "full" THEN op.resp.rid
                                ELSE generateId(nextLocal)]_vars
(***************************************************************************)
(* C15.  When the localStorage write fails, uploadSuccess,                 *)
(* fetchPlantsSuccess and deletePlantSuccess update the collection, error  *)
(* and loading as they do when it succeeds, and no exception escapes: the  *)
(* handler runs on to its end.  The stored item stays as it was.           *)
(***************************************************************************)
C15_WriteFailureTolerated ==
    [][~storageOk =>
          /\ mirror' = mirror
          /\ \A op \in InFlight :
                /\ (SaveSucceeds(op) /\ op.resp.shape # "nodata") =>
                      /\ Tail(plants') = plants /\ plants'[1] = Rec(last'.id, op.name)
                      /\ error' = error /\ loading' = loading
                      /\ last'.kind = "upload" /\ last'.outcome = "ok"
                /\ \A o \in Outcomes :
                      DeleteReturns(op, o) =>
                         /\ plants' = Filter(plants, op.id)
                         /\ error' = error /\ loading' = FALSE
                         /\ last'.kind = "delete" /\ last'.outcome = o
                /\ \A o \in Outcomes :
                      RefreshCompletes(op, o) =>
                         LET R == IF o = "ok" THEN MapPlants(op.resp.data) ELSE <<>>
                         IN /\ plants' = IF R # <<>> THEN R ELSE op.local.list
                            /\ error' = error /\ loading' = FALSE
                            /\ last'.kind = "refresh" /\ last'.outcome = o]_vars

\* with the writes failing, a create has put its record in front of the record
\* fetched from the remote, which the stored item never held
C15_Witness ==
    /\ ~storageOk /\ mirror = Absent
    /\ last.kind = "upload" /\ last.outcome = "ok"
    /\ Len(plants) = 2 /\ plants[1].id = last.id
    /\ plants[2] = Rec(1, "old.jpg")
(***************************************************************************)
(* C16.  A create puts its record in the collection only when              *)
(* savePlantData returned success, which comes after extractCoordinates    *)
(* returned success, which comes after the image was hosted.  When         *)
(* extractCoordinates fails no save request follows for that file, and     *)
(* when any step fails the file's pipeline ends without uploadSuccess.     *)
(***************************************************************************)
C16_CreatePipelineOrder ==
    [][/\ created' # created =>
             \E op \in InFlight :
                /\ op.kind = "upload" /\ op.pc = "answered" /\ op.resp.status = "ok"
                /\ SaveSucceeds(op)
                /\ created' = Append(created, plants'[1])
                /\ plants'[1].imageName = op.name
       /\ \A new \in BagToSet(ops') \ InFlight :
             new.kind = "upload" =>
                \/ new.pc = "hosting" /\ StartUpload(new.name)
                \/ /\ new.pc = "extracting"
                   /\ \E op \in InFlight :
                         op.name = new.name /\ op.pc = "hosting" /\ HostDone(op, TRUE)
                \/ /\ new.pc = "sent"
                   /\ \E op \in InFlight :
                         /\ op.name = new.name /\ op.pc = "extracting"
                         /\ ExtractDone(op, "ok", Somewhere)
                \/ /\ new.pc = "answered"
                   /\ \E op \in InFlight : op.name = new.name /\ op.pc = "sent"
       /\ \A op \in InFlight :
             (\/ HostFails(op)
              \/ \E o \in Outcomes : \E c \in Coordinates : ExtractFails(op, o, c)
              \/ \E o \in Outcomes : SaveFails(op, o))
             => /\ created' = created /\ plants' = plants
                /\ \A x \in BagToSet(ops') : x.kind = "upload" => x.name # op.name]_vars

\* of two files uploaded together one went through the three steps and is in the
\* collection, the other failed at extractCoordinates and is not
C16_Witness ==
    /\ Len(created) = 1 /\ plants = created
    /\ last.kind = "upload" /\ last.outcome = "extractFailed"
    /\ ops = EmptyBag
(***************************************************************************)
(* C17.  When refreshes overlap, the last response processed wins: after   *)
(* all of them completed, the collection, the mirror and the cache reflect *)
(* one and the same refresh, so a non-empty list held by the cache is the  *)
(* collection and the mirror, for every combination of outcomes.           *)
(***************************************************************************)
C17_LastRefreshWins ==
    (started >= 2 /\ ops = EmptyBag /\ ~IsNull(cache.plants) /\ Val(cache.plants) # <<>>)
       => (plants = Val(cache.plants) /\ Persisted = Val(cache.plants))
(***************************************************************************)
(* C18.  A request is sent again only by the interceptor, only after an    *)
(* attempt that failed with a timeout code, and at most MAX_RETRIES = 2    *)
(* times: no request is attempted more than 3 times, an attempt failing    *)
(* with another error is rejected to the caller at once, and the           *)
(* operation that receives a failure returns without sending again.        *)
(***************************************************************************)
C18_RetryOnlyOnTimeout ==
    /\ [](\A op \in InFlight : op.attempts <= 3 /\ op.attempts = op.retry + 1)
    /\ [][\A op \in InFlight : \A code \in ErrorCodes :
             AttemptFails(op, code) =>
                LET again == [op EXCEPT !.retry = @ + 1, !.attempts = @ + 1,
                                        !.pc = IF @ = "extracting" THEN @ ELSE "sent",
                                        !.resp = NoResp]
                    resent == again \in BagToSet(ops')
                IN /\ resent <=> (code \in {"ECONNABORTED", "ETIMEDOUT"} /\ op.attempts <= 2)
                   /\ ~resent =>
                         \E x \in BagToSet(ops') :
                            /\ x.outcome \in {"network", "httpError"}
                            /\ x = [op EXCEPT !.outcome = x.outcome]]_vars
    /\ [][\A op \in InFlight :
             (\/ \E o \in Outcomes \ {"ok"} : RefreshCompletes(op, o)
              \/ \E o \in Outcomes \ {"ok"} : DeleteReturns(op, o)
              \/ \E o \in Outcomes : SaveFails(op, o)
              \/ \E o \in Outcomes \ {"ok"} : ExtractFails(op, o, Somewhere))
             => /\ ops' = Removed(op)
                /\ last'.attempts = op.attempts]_vars

\* a fetch that timed out three times has been given up
C18_Witness ==
    /\ last.kind = "refresh" /\ last.outcome = "network" /\ last.attempts = 3
    /\ ops = EmptyBag
(***************************************************************************)
(* C19.  fetchPlantsStart, uploadStart and uploadProgress leave the        *)
(* collection and the mirror as they are, in every reachable state; so     *)
(* starting an upload, a progress event of the image host and, once the    *)
(* application has started, a run of the effect that sends a fetch leave   *)
(* a reader with the collection held before.                               *)
(***************************************************************************)
C19_StartActionsKeepCollection ==
    /\ [](/\ fetchPlantsStart(World).plants = plants
          /\ fetchPlantsStart(World).mirror = mirror
          /\ \A k \in 1..Len(Files) :
                /\ uploadStart(World, Files[k]).plants = plants
                /\ uploadStart(World, Files[k]).mirror = mirror
                /\ \A p \in ProgressValues :
                      /\ uploadProgressSet(World, Files[k], p).plants = plants
                      /\ uploadProgressSet(World, Files[k], p).mirror = mirror)
    /\ [][(\/ StartUpload(Files[started + 1])
           \/ \E op \in InFlight : \E p \in ProgressValues : HostProgress(op, p)
           \/ /\ started >= 1
              /\ \E f \in BOOLEAN : RunEffect(f) /\ ~CacheHit(cache, now, f))
          => plants' = plants /\ mirror' = mirror]_vars

\* the image host has reported progress for an upload under way, and the record
\* fetched earlier is still presented
C19_Witness ==
    /\ \E op \in InFlight :
          /\ op.kind = "upload" /\ op.pc = "hosting"
          /\ op.name \in DOMAIN uploadProgress /\ uploadProgress[op.name] = 100
    /\ plants = <<Rec(1, "old.jpg")>> /\ Persisted = plants
    /\ last.kind = "refresh" /\ last.outcome = "ok"
(***************************************************************************)
(* C20.  The first run of the effect sets the collection to the content of *)
(* the stored item, the empty list when the item is absent, empty or       *)
(* unparseable, and then sends the fetch request, whatever the item held;  *)
(* no response has been processed before the collection is set.            *)
(***************************************************************************)
C20_LocalFirstThenFetch ==
    /\ [](started = 0 => (ops = EmptyBag /\ last.kind = "none" /\ plants = <<>>))
    /\ [][(started = 0 /\ RunEffect(FALSE)) =>
             LET v == loadPlantsFromLocal(mirror)
             IN /\ plants' = v.list
                /\ mirror.kind \in {"absent", "empty", "garbage"} =>
                      (plants' = <<>> /\ plantsType' = "array")
                /\ mirror.kind = "json" =>
                      (plants' = JSONparse(mirror).list /\ plantsType' = "array")
                /\ last' = last
                /\ \E op \in BagToSet(ops') :
                      /\ op.kind = "refresh" /\ op.pc = "sent" /\ op.resp = NoResp
                      /\ ops' = SetToBag({op})]_vars

\* the stored list is presented while the fetch sent after it is unanswered
C20_Witness ==
    /\ started = 1 /\ last.kind = "none"
    /\ plants = <<Rec(1, "old.jpg")>> /\ loading
    /\ \E op \in InFlight : op.kind = "refresh" /\ op.pc = "sent"
    /\ serverDb = <<>>
(***************************************************************************)
(* C21.  For a request in flight, the failure result of fetchUserPlants,   *)
(* of extractCoordinates and of savePlantData for a remote that was not    *)
(* reached or timed out differs from the failure result for a remote that  *)
(* answered with a rejection (success false, or a non-2xx status).         *)
(***************************************************************************)
C21_FailuresDistinguishable ==
    \A op \in InFlight : \A rejection \in {"rejected", "httpError"} :
       /\ (op.kind = "refresh" /\ op.pc \in {"sent", "answered"}) =>
             fetchResult("network", op.resp.data) # fetchResult(rejection, op.resp.data)
       /\ (op.kind = "upload" /\ op.pc = "extracting") =>
             extractError("network") # extractError(rejection)
       /\ (op.kind = "upload" /\ op.pc \in {"sent", "answered"}) =>
             saveError("network") # saveError(rejection)
(***************************************************************************)
(* C22.  clearCache empties the cache whatever it held and leaves the      *)
(* collection and the mirror as they are; from then until the next         *)
(* fetchUserPlants(false) is issued, that call would not be answered from  *)
(* the cache.                                                              *)
(***************************************************************************)
C22_ClearCacheForcesRefetch ==
    /\ [][ClearCache => (cache' = EmptyCache /\ plants' = plants /\ mirror' = mirror)]_vars
    /\ [](cleared => ~CacheHit(cache, now, FALSE))
(***************************************************************************)
(* C23.  A declined confirmation sends no delete request and leaves the    *)
(* collection, the mirror, the cache and the loading flag as they are; a   *)
(* delete request appears only with a confirmed dialog.                    *)
(***************************************************************************)
C23_DeclinedDeleteChangesNothing ==
    /\ [][\A k \in 1..Len(plants) :
             StartDelete(k, FALSE) =>
                /\ ops' = ops
                /\ plants' = plants /\ mirror' = mirror
                /\ cache' = cache /\ loading' = loading]_vars
    /\ [][(\E new \in BagToSet(ops') \ InFlight : new.kind = "delete" /\ new.pc = "sent"
                                                  /\ new.attempts = 1)
             => \E k \in 1..Len(plants) : StartDelete(k, TRUE)]_vars

\* the dialog for a plant was declined: the plant is presented, nothing is in
\* flight, nothing is loading and the cached list is fresh
C23_Witness ==
    /\ last.kind = "delete" /\ last.outcome = "declined"
    /\ last.id \in Ids(plants)
    /\ ops = EmptyBag /\ ~loading
    /\ CacheHit(cache, now, FALSE) /\ Persisted = plants
(***************************************************************************)
(* C24.  The record a successful create has put in the collection is not   *)
(* removed, from the collection or from the mirror, by the completion of   *)
(* a refresh that was issued before the create completed.                  *)
(***************************************************************************)
C24_CreatedSurvivesEarlierRefresh ==
    [][\A op \in InFlight : \A o \in Outcomes :
          (/\ last.kind = "upload" /\ last.outcome = "ok"
           /\ last.id \in Ids(plants)
           /\ op.issued < Done
           /\ RefreshCompletes(op, o))
          => (last.id \in Ids(plants') /\ last.id \in Ids(loadPlantsFromLocal(mirror').list))]_vars
(***************************************************************************)
(* C25.  The record a delete has removed is not put back, into the         *)
(* collection or into the mirror, by the completion of a refresh that was  *)
(* issued before the delete completed, whether the refresh succeeds or     *)
(* fails.                                                                  *)
(***************************************************************************)
C25_DeletedStaysDeleted ==
    [][\A op \in InFlight : \A o \in Outcomes :
          (/\ last.kind = "delete" /\ last.outcome \in Outcomes
           /\ last.id \notin Ids(plants)
           /\ op.issued < Done
           /\ RefreshCompletes(op, o))
          => (last.id \notin Ids(plants')
              /\ last.id \notin Ids(loadPlantsFromLocal(mirror').list))]_vars
(***************************************************************************)
(* C26.  Whenever fetchUserPlants(false) would answer from the cache with *)
(* a list that is not empty, the cached list is the collection; and a run  *)
(* of the effect that is served from the cache leaves the collection as    *)
(* it is.                                                                  *)
(***************************************************************************)
C26_CacheAgreesWithCollection ==
    /\ []((CacheHit(cache, now, FALSE) /\ Val(cache.plants) # <<>>)
             => Val(cache.plants) = plants)
    /\ [][(CacheHit(cache, now, FALSE) /\ RunEffect(FALSE)) => plants' = plants]_vars
(***************************************************************************)
(* C27.  savePlantData sends the save request for every draft with a      *)
(* name, a url, a latitude in [-90, 90] and a longitude in [-180, 180],    *)
(* zero included; the draft is refused with Missing required plant data    *)
(* fields only when a field is absent.                                     *)
(***************************************************************************)
C27_ZeroCoordinatesAreSaved ==
    [][\A op \in InFlight : \A c \in Coordinates :
          (op.kind = "upload" /\ ExtractDone(op, "ok", c)) =>
             LET sent == [op EXCEPT !.pc = "sent"] \in BagToSet(ops')
                 present == ~IsNull(c.latitude) /\ ~IsNull(c.longitude)
                 inRange == /\ present
                            /\ Val(c.latitude) >= 0 - 90 /\ Val(c.latitude) <= 90
                            /\ Val(c.longitude) >= 0 - 180 /\ Val(c.longitude) <= 180
             IN /\ inRange => sent
                /\ (~sent /\ error' = "Missing required plant data fields") => ~present]_vars
(***************************************************************************)
(* C28.  For every file uploaded, whatever the outcomes of the attempts of *)
(* its save request, the remote stores at most one record, and once the    *)
(* upload has completed the number of records the remote stored for it is  *)
(* the number of records inserted in the collection for it.                *)
(***************************************************************************)
C28_OneRecordPerCreate ==
    \A k \in 1..Len(Files) :
       /\ StoredFor(Files[k]) <= 1
       /\ (\A op \in InFlight : op.name # Files[k]) =>
             StoredFor(Files[k]) = InsertedFor(Files[k])
(***************************************************************************)
(* C29.  In every reachable state the loading flag is true exactly when a  *)
(* refresh or a delete request is in flight.                               *)
(***************************************************************************)
C29_LoadingIffRequestInFlight ==
    loading <=> (\E op \in InFlight : op.kind \in {"refresh", "delete"})
(***************************************************************************)
(* C30.  When every attempt is eventually answered or fails: every started *)
(* refresh, create and delete is eventually completed; loading, once true, *)
(* becomes false again and a progress entry, once made, is removed again   *)
(* (each start action is followed by its success or failure action); when  *)
(* no request is in flight loading is false and uploadProgress is empty;   *)
(* and none of the functions of services/api.js rejects.                   *)
(***************************************************************************)
C30_Completes == \A n \in 1..MaxOps : (started = n) ~> (Done = n)
C30_StartsAreAnswered ==
    /\ loading ~> ~loading
    /\ (uploadProgress # <<>>) ~> (uploadProgress = <<>>)
C30_QuietWhenIdle == [](ops = EmptyBag => (~loading /\ uploadProgress = <<>>))
C30_NeverRejects == [](last.outcome # "threw")
C30_EveryRequestCompletes ==
    C30_Completes /\ C30_StartsAreAnswered /\ C30_QuietWhenIdle /\ C30_NeverRejects
====
